---- MODULE Spec2Model ----
(***************************************************************************)
(* A model of bot.py: the HTTP helper (_req), the indicator library, the   *)
(* signal evaluator (analyze_symbol), the risk sizer (position_size), the  *)
(* guardrails (daily_loss_exceeded, the checks at the head of              *)
(* scan_and_trade), the order builder (place_bracket_order) and the scan   *)
(* cycle driven by main.                                                   *)
(*                                                                         *)
(* Numbers.  Python floats are modelled as exact rationals [n, d] in       *)
(* lowest terms with d > 0; float("nan") is the pair with d = 0.  Prices   *)
(* are in dollars, volumes in shares.                                      *)
(***************************************************************************)
EXTENDS Integers, Sequences, FiniteSets, TLC

VARIABLES
    call,        \* pure-function harness: the arguments of the last call
    ret,         \* pure-function harness: what the call returned
    outcome,     \* how the last iteration of main's loop ended
    acct,        \* scan_and_trade: the account returned by get_account()
    positions,   \* scan_and_trade: len(list_positions())
    market,      \* what get_bars / get_snapshot returned, per symbol scanned
    analyzed,    \* symbols analyze_symbol was invoked for, in call order
    snapshots,   \* symbols analyze_symbol requested a snapshot for
    candidates,  \* scan_and_trade: the candidates list
    sized,       \* symbols position_size was invoked for, in call order
    orders,      \* payloads handed to place_bracket_order in this cycle
    pausedAt,    \* observer: last_equity baseline of a drawdown breach seen
    remembered   \* observer: inputs and decision of one earlier cycle

vars == <<call, ret, outcome, acct, positions, market, analyzed, snapshots,
          candidates, sized, orders, pausedAt, remembered>>

None == [none |-> TRUE]

-----------------------------------------------------------------------------
(* Exact arithmetic standing for Python's float arithmetic.                *)

Abs(x) == IF x < 0 THEN -x ELSE x

RECURSIVE GCD(_, _)
GCD(a, b) == IF b = 0 THEN a ELSE GCD(b, a % b)

NaN == [n |-> 0, d |-> 0]
IsNaN(x) == x.d = 0

Rat(n, d) ==
    IF d = 0 THEN NaN
    ELSE LET g == GCD(Abs(n), Abs(d))
             s == IF d < 0 THEN -1 ELSE 1
         IN  [n |-> s * (n \div g), d |-> s * (d \div g)]

RInt(i) == [n |-> i, d |-> 1]

RNeg(x) == [n |-> -x.n, d |-> x.d]

\* The sum over the least common denominator.
RAdd(x, y) ==
    IF IsNaN(x) \/ IsNaN(y) THEN NaN
    ELSE LET g == GCD(x.d, y.d)
         IN  Rat(x.n * (y.d \div g) + y.n * (x.d \div g), (x.d \div g) * y.d)

RSub(x, y) == RAdd(x, RNeg(y))
RMul(x, y) == IF IsNaN(x) \/ IsNaN(y) THEN NaN ELSE Rat(x.n * y.n, x.d * y.d)
RDiv(x, y) == IF IsNaN(x) \/ IsNaN(y) THEN NaN ELSE Rat(x.n * y.d, x.d * y.n)

\* Every comparison with NaN is false, as in IEEE 754.
RLt(x, y) == ~IsNaN(x) /\ ~IsNaN(y) /\ x.n * y.d < y.n * x.d
RLe(x, y) == ~IsNaN(x) /\ ~IsNaN(y) /\ x.n * y.d <= y.n * x.d
RGt(x, y) == RLt(y, x)
RGe(x, y) == RLe(y, x)

\* Python's max(a, b): b only when b > a.
PyMax(a, b) == IF RGt(b, a) THEN b ELSE a

\* math.floor of a number.
Floor(x) == x.n \div x.d

-----------------------------------------------------------------------------
(* Python list helpers.                                                    *)

RECURSIVE SumTo(_, _)
SumTo(s, k) == IF k = 0 THEN 0 ELSE s[k] + SumTo(s, k - 1)

\* sum(s) of numbers
Sum(s) == SumTo(s, Len(s))

RECURSIVE RSumTo(_, _)
RSumTo(s, k) == IF k = 0 THEN RInt(0) ELSE RAdd(RSumTo(s, k - 1), s[k])

\* sum(s) of floats
RSum(s) == RSumTo(s, Len(s))

RECURSIVE MaxTo(_, _)
MaxTo(s, k) == IF k = 1 THEN s[1]
               ELSE LET m == MaxTo(s, k - 1) IN IF s[k] > m THEN s[k] ELSE m

\* max(s) of a non-empty list
MaxOf(s) == MaxTo(s, Len(s))

\* s[-n:]
LastN(s, n) == IF n >= Len(s) THEN s ELSE SubSeq(s, Len(s) - n + 1, Len(s))

\* s[:-1]
ButLast(s) == SubSeq(s, 1, Len(s) - 1)

-----------------------------------------------------------------------------
(* Tunables (bot.py, "Tunables").                                          *)

MAX_SYMBOLS_PER_SCAN == 60
MAX_CONCURRENT_POS == 6
RISK_PCT_PER_TRADE == Rat(1, 100)
\* Seeded fault: a take-profit multiplier of 3.
TAKE_PROFIT_ATR_MULT_three == Rat(3, 1)
TAKE_PROFIT_ATR_MULT == Rat(22, 10)
STOP_ATR_MULT == Rat(11, 10)
MIN_PRICE == 5
MAX_PRICE == 800
MIN_AVG_VOL == 300000
DAILY_MAX_LOSS_PCT == Rat(3, 100)
EXTENDED_TRADING == TRUE

\* Times of day, New York time, in minutes since midnight.
PRE_MARKET_START == 240
REGULAR_OPEN == 570
REGULAR_CLOSE == 960
AFTER_MARKET_END == 1200

-----------------------------------------------------------------------------
(* Indicators.                                                             *)

\* Seeded fault: the highest of whatever is there, however short the list.
highest_of_what_there_is(values, n) ==
    IF values # <<>> THEN RInt(MaxOf(LastN(values, n))) ELSE NaN

highest(values, n) ==
    IF Len(values) >= n THEN RInt(MaxOf(LastN(values, n))) ELSE NaN

\* Seeded fault: the gap to the previous close loses its abs() and the
\* bar's own range is dropped, tr = max(h - pc, l - pc).
TrueRanges_signed(highs, lows, closes) ==
    [k \in 1..(Len(closes) - 1) |->
        LET h  == highs[k + 1]
            l  == lows[k + 1]
            pc == closes[k]
        IN  MaxOf(<<h - pc, l - pc>>)]

\* Seeded fault: the bar's own close stands in for the previous close,
\* pc = closes[i].
TrueRanges_own_close(highs, lows, closes) ==
    [k \in 1..(Len(closes) - 1) |->
        LET h  == highs[k + 1]
            l  == lows[k + 1]
            pc == closes[k + 1]
        IN  MaxOf(<<h - l, Abs(h - pc), Abs(l - pc)>>)]

TrueRanges(highs, lows, closes) ==
    [k \in 1..(Len(closes) - 1) |->
        LET h  == highs[k + 1]
            l  == lows[k + 1]
            pc == closes[k]
        IN  MaxOf(<<h - l, Abs(h - pc), Abs(l - pc)>>)]

atr(highs, lows, closes, n) ==
    IF Len(closes) < n + 1 THEN NaN
    ELSE LET trs == TrueRanges(highs, lows, closes)
         IN  IF Len(trs) >= n THEN Rat(Sum(LastN(trs, n)), n) ELSE NaN

Gains(closes) ==
    [k \in 1..(Len(closes) - 1) |->
        LET ch == closes[k + 1] - closes[k] IN IF ch > 0 THEN ch ELSE 0]

Losses(closes) ==
    [k \in 1..(Len(closes) - 1) |->
        LET ch == closes[k + 1] - closes[k] IN IF -ch > 0 THEN -ch ELSE 0]

\* Seeded fault: the sign of the loss slips, losses.append(max(0, ch)).
rsi_losses_as_gains(closes, n) ==
    IF Len(closes) < n + 1 THEN NaN
    ELSE LET avg_gain == Rat(Sum(LastN(Gains(closes), n)), n)
             avg_loss == Rat(Sum(LastN(Gains(closes), n)), n)
         IN  IF avg_loss = RInt(0) THEN RInt(100)
             ELSE LET rs == RDiv(avg_gain, avg_loss)
                  IN  RSub(RInt(100), RDiv(RInt(100), RAdd(RInt(1), rs)))

\* Seeded fault: the "100 -" is lost, rsi = 100 / (1 + rs).
rsi_share_of_losses(closes, n) ==
    IF Len(closes) < n + 1 THEN NaN
    ELSE LET avg_gain == Rat(Sum(LastN(Gains(closes), n)), n)
             avg_loss == Rat(Sum(LastN(Losses(closes), n)), n)
         IN  IF avg_loss = RInt(0) THEN RInt(100)
             ELSE LET rs == RDiv(avg_gain, avg_loss)
                  IN  RDiv(RInt(100), RAdd(RInt(1), rs))

rsi(closes, n) ==
    IF Len(closes) < n + 1 THEN NaN
    ELSE LET avg_gain == Rat(Sum(LastN(Gains(closes), n)), n)
             avg_loss == Rat(Sum(LastN(Losses(closes), n)), n)
         IN  IF avg_loss = RInt(0) THEN RInt(100)
             ELSE LET rs == RDiv(avg_gain, avg_loss)
                  IN  RSub(RInt(100), RDiv(RInt(100), RAdd(RInt(1), rs)))

-----------------------------------------------------------------------------
(* Strategy.  bars is what get_bars returned, with <<>> for both None and  *)
(* the empty list (line 133 treats them alike); a bar is [h, l, c, v].     *)
(* snap is what get_snapshot returned: None, or [trading_status |-> s]     *)
(* where s = "None" stands for a snapshot without that key.                *)

Column(bars, f) == [k \in 1..Len(bars) |-> bars[k][f]]

TradingStatus(snap) == IF snap = None THEN "None" ELSE snap.trading_status

\* Lines 132-153: everything analyze_symbol decides before it asks for the
\* snapshot.  None when the symbol is rejected, else the values kept.
analyze_filters(bars) ==
    IF bars = <<>> \/ Len(bars) < 60 THEN None
    ELSE
    LET closes == Column(bars, "c")
        highs  == Column(bars, "h")
        lows   == Column(bars, "l")
        vols   == Column(bars, "v")
        last   == closes[Len(closes)]
    IN
    IF ~(MIN_PRICE <= last /\ last <= MAX_PRICE) THEN None
    ELSE
    LET avg_vol == Rat(Sum(LastN(vols, 30)), 30) IN
    IF RLt(avg_vol, RInt(MIN_AVG_VOL)) THEN None
    ELSE
    LET hi20 == highest(ButLast(highs), 20)
        ref_vol == IF Len(vols) > 21
                   THEN Rat(Sum(SubSeq(vols, Len(vols) - 20, Len(vols) - 1)), 20)
                   ELSE avg_vol
        breakout == RGt(RInt(last), hi20)
                    /\ RGt(RInt(vols[Len(vols)]), RMul(Rat(3, 2), ref_vol))
        typical == [k \in 1..Len(bars) |-> Rat(bars[k].h + bars[k].l + bars[k].c, 3)]
        weighted == [k \in 1..30 |->
                        RMul(typical[Len(bars) - 30 + k], RInt(vols[Len(bars) - 30 + k]))]
        vwap == IF Sum(LastN(vols, 30)) > 0
                THEN RDiv(RSum(weighted), RInt(Sum(LastN(vols, 30))))
                ELSE RInt(last)
        r == rsi(closes, 14)
        vwap_ok == RGt(RInt(last), vwap)
        rsi_ok == RLt(r, RInt(75))
        a == atr(highs, lows, closes, 14)
    IN
    IF IsNaN(a) THEN None
    ELSE IF ~(breakout /\ vwap_ok /\ rsi_ok) THEN None
    ELSE [last |-> last, hi20 |-> hi20, vwap |-> vwap, a |-> a, avg_vol |-> avg_vol]

\* Seeded fault: the snapshot is fetched next to the bars, ahead of the
\* filters.
snapshot_requested_after_history(bars) == Len(bars) >= 60

\* Line 158 is reached: analyze_symbol calls get_snapshot.
snapshot_requested(bars) == analyze_filters(bars) # None

analyze_symbol(symbol, bars, snap) ==
    LET f == analyze_filters(bars) IN
    IF f = None THEN None
    ELSE
    LET last == RInt(f.last)
        stop == RSub(last, RMul(STOP_ATR_MULT, f.a))
        take == RAdd(last, RMul(TAKE_PROFIT_ATR_MULT, f.a))
    IN
    IF TradingStatus(snap) \in {"Halted", "T1"} THEN None
    ELSE
    LET strength == RDiv(RSub(last, f.hi20), PyMax(Rat(1, 100), f.a))
        score == RAdd(strength, RDiv(RSub(last, f.vwap), PyMax(Rat(1, 100), f.a)))
    IN  [symbol |-> symbol, entry |-> last, stop |-> stop, take |-> take,
         atr |-> f.a, avg_vol |-> f.avg_vol, strength |-> score]

-----------------------------------------------------------------------------
(* Risk / guardrails.                                                      *)

\* Seeded fault: position_size without the buying-power cap (lines 171-172).
position_size_uncapped(buying_power, entry, stop, risk_pct) ==
    LET risk_dollars == RMul(PyMax(RInt(0), buying_power), risk_pct)
        per_share_risk == PyMax(Rat(1, 100), RSub(entry, stop))
        shares == Floor(RDiv(risk_dollars, per_share_risk))
    IN  IF shares > 0 THEN shares ELSE 0

\* Seeded fault: the 0.01 floor applied only when entry - stop <= 0.
position_size_floor_on_nonpositive(buying_power, entry, stop, risk_pct) ==
    LET risk_dollars == RMul(PyMax(RInt(0), buying_power), risk_pct)
        gap == RSub(entry, stop)
        per_share_risk == IF RGt(gap, RInt(0)) THEN gap ELSE Rat(1, 100)
        shares == Floor(RDiv(risk_dollars, per_share_risk))
        capped == IF RGt(RMul(RInt(shares), entry), buying_power)
                  THEN Floor(RDiv(buying_power, entry))
                  ELSE shares
    IN  IF capped > 0 THEN capped ELSE 0

position_size(buying_power, entry, stop, risk_pct) ==
    LET risk_dollars == RMul(PyMax(RInt(0), buying_power), risk_pct)
        per_share_risk == PyMax(Rat(1, 100), RSub(entry, stop))
        shares == Floor(RDiv(risk_dollars, per_share_risk))
        capped == IF RGt(RMul(RInt(shares), entry), buying_power)
                  THEN Floor(RDiv(buying_power, entry))
                  ELSE shares
    IN  IF capped > 0 THEN capped ELSE 0

\* Seeded fault: the threshold itself counts as exceeded (dd <= -3%).
daily_loss_exceeded_inclusive(a) ==
    LET eq == RInt(a.equity)
        last_eq == RInt(a.last_equity)
        dd == IF last_eq # RInt(0) THEN RDiv(RSub(eq, last_eq), last_eq) ELSE RInt(0)
    IN  RLe(dd, RNeg(DAILY_MAX_LOSS_PCT))

\* Seeded fault: a breach is latched for as long as the baseline stays.
daily_loss_exceeded_latched(a) ==
    LET eq == RInt(a.equity)
        last_eq == RInt(a.last_equity)
        dd == IF last_eq # RInt(0) THEN RDiv(RSub(eq, last_eq), last_eq) ELSE RInt(0)
    IN  RLt(dd, RNeg(DAILY_MAX_LOSS_PCT)) \/ a.last_equity \in pausedAt

\* An account is [trading_blocked, equity, last_equity, buying_power].
daily_loss_exceeded(a) ==
    LET eq == RInt(a.equity)
        last_eq == RInt(a.last_equity)
        dd == IF last_eq # RInt(0) THEN RDiv(RSub(eq, last_eq), last_eq) ELSE RInt(0)
    IN  RLt(dd, RNeg(DAILY_MAX_LOSS_PCT))

-----------------------------------------------------------------------------
(* State shared by every specification: nothing called, no cycle run.      *)

NoCall == [fn |-> "none"]

IdleCycle ==
    /\ outcome = "idle"
    /\ acct = None
    /\ positions = 0
    /\ market = <<>>
    /\ analyzed = <<>>
    /\ snapshots = <<>>
    /\ candidates = <<>>
    /\ sized = <<>>
    /\ orders = <<>>
    /\ pausedAt = {}
    /\ remembered = None

cycleVars == <<outcome, acct, positions, market, analyzed, snapshots,
               candidates, sized, orders, pausedAt, remembered>>

Init ==
    /\ call = NoCall
    /\ ret = None
    /\ IdleCycle

-----------------------------------------------------------------------------
(* position_size on its own, over a grid of arguments.                     *)

SizeBuyingPowers ==
    {RInt(-100), RInt(0), RInt(1), RInt(99), RInt(100), RInt(1000), Rat(1999, 2)}
SizeEntries == {Rat(1, 2), RInt(5), RInt(13), RInt(17), RInt(800)}
\* entry - stop
SizeGaps == {RInt(-1), RInt(0), Rat(1, 200), Rat(1, 100), Rat(11, 20), RInt(5)}
SizeRiskPcts == {RInt(0), Rat(1, 100), Rat(1, 2), RInt(2)}

CallPositionSize ==
    /\ call = NoCall
    /\ \E bp \in SizeBuyingPowers, entry \in SizeEntries,
          gap \in SizeGaps, risk \in SizeRiskPcts :
            /\ call' = [fn |-> "position_size", buying_power |-> bp, entry |-> entry,
                        stop |-> RSub(entry, gap), risk_pct |-> risk]
            /\ ret' = position_size(bp, entry, RSub(entry, gap), risk)
    /\ UNCHANGED cycleVars

SpecSize == Init /\ [][CallPositionSize]_vars

-----------------------------------------------------------------------------
(* daily_loss_exceeded on its own.                                         *)

LossEquities ==
    {0, 1, 96, 97, 98, 100, 96999, 97000, 97001, 99999, 100000, 103001}
LossLastEquities == {0, 1, 100, 99999, 100000, 100001, 103000, 200000, 1000000}

CallDailyLoss ==
    /\ call = NoCall
    /\ \E eq \in LossEquities, last_eq \in LossLastEquities :
            /\ call' = [fn |-> "daily_loss_exceeded", equity |-> eq, last_equity |-> last_eq]
            /\ ret' = daily_loss_exceeded([equity |-> eq, last_equity |-> last_eq])
    /\ UNCHANGED cycleVars

SpecLoss == Init /\ [][CallDailyLoss]_vars

-----------------------------------------------------------------------------
(* analyze_symbol on its own, over a family of bar series: a flat run at   *)
(* 10 dollars, two closes, and a last bar.                                 *)

ExtraBars == 1

Bar(h, l, c, v) == [h |-> h, l |-> l, c |-> c, v |-> v]

\* n flat bars at 10 dollars, then three closing bars.
Series(n, base_vol, c1, c2, last_high, last_close, last_vol) ==
    [k \in 1..n |-> Bar(10, 10, 10, base_vol)]
        \o <<Bar(c1, c1, c1, base_vol), Bar(c2, c2, c2, base_vol),
             Bar(last_high, last_close, last_close, last_vol)>>

\* 59 bars and more.
FlatRuns == 56..(57 + ExtraBars)
BaseVolumes == {290000, 300000}
FirstCloses == {6, 8, 10}
SecondCloses == {7, 9, 10}
LastCloses == {4, 10, 13, 14, 17, 801}
\* last high - last close
LastWicks == {0, 37}
LastVolumes == {450000, 600000, 3000000}

AnalyzeSnapshots ==
    {None, [trading_status |-> "Active"], [trading_status |-> "Halted"],
     [trading_status |-> "T1"]}

CallAnalyze ==
    /\ call = NoCall
    /\ \E n \in FlatRuns, bv \in BaseVolumes, c1 \in FirstCloses, c2 \in SecondCloses,
          c \in LastCloses, w \in LastWicks, v \in LastVolumes, snap \in AnalyzeSnapshots :
            LET bars == Series(n, bv, c1, c2, c + w, c, v) IN
            /\ call' = [fn |-> "analyze_symbol", bars |-> bars, snap |-> snap]
            /\ ret' = analyze_symbol("AAPL", bars, snap)
    /\ UNCHANGED cycleVars

SpecAnalyze == Init /\ [][CallAnalyze]_vars

-----------------------------------------------------------------------------
(* The indicators on their own, over short lists, and analyze_symbol over  *)
(* series too short for them.                                              *)

MaxValues == 4
MaxBars == 3

\* Every list of at most k elements of S.
ListsUpTo(S, k) == UNION {[1..m -> S] : m \in 0..k}

IndicatorPrices == {1, 2, 3}
IndicatorWindows == 1..3

\* [h, l, c]: the last one is not a valid bar (its high is below its low).
IndicatorBars ==
    {[h |-> 2, l |-> 1, c |-> 1], [h |-> 2, l |-> 1, c |-> 2], [h |-> 3, l |-> 3, c |-> 3],
     [h |-> 1, l |-> 1, c |-> 1], [h |-> 1, l |-> 2, c |-> 1]}

CallHighest ==
    /\ call = NoCall
    /\ \E values \in ListsUpTo(IndicatorPrices, MaxValues), n \in IndicatorWindows :
            /\ call' = [fn |-> "highest", values |-> values, n |-> n]
            /\ ret' = highest(values, n)
    /\ UNCHANGED cycleVars

CallAtr ==
    /\ call = NoCall
    /\ \E bars \in ListsUpTo(IndicatorBars, MaxBars), n \in IndicatorWindows :
            /\ call' = [fn |-> "atr", bars |-> bars, n |-> n]
            /\ ret' = atr(Column(bars, "h"), Column(bars, "l"), Column(bars, "c"), n)
    /\ UNCHANGED cycleVars

CallRsi ==
    /\ call = NoCall
    /\ \E closes \in ListsUpTo(IndicatorPrices, MaxValues), n \in IndicatorWindows :
            /\ call' = [fn |-> "rsi", closes |-> closes, n |-> n]
            /\ ret' = rsi(closes, n)
    /\ UNCHANGED cycleVars

\* Bar lists of 0, 3, 13, 19, 20, 59 and 60 bars.
ShortRuns == {0, 10, 16, 17, 56, 57}

CallAnalyzeShort ==
    /\ call = NoCall
    /\ \E bars \in {<<>>} \cup {Series(n, 300000, c1, 9, 13, 13, 600000) :
                                    n \in ShortRuns, c1 \in FirstCloses} :
            /\ call' = [fn |-> "analyze_symbol", bars |-> bars,
                        snap |-> [trading_status |-> "Active"]]
            /\ ret' = analyze_symbol("AAPL", bars, [trading_status |-> "Active"])
    /\ UNCHANGED cycleVars

NextIndicators == CallHighest \/ CallAtr \/ CallRsi \/ CallAnalyzeShort

SpecIndicators == Init /\ [][NextIndicators]_vars

-----------------------------------------------------------------------------
(* _req: one HTTP request with its retries.  The call record keeps the     *)
(* loop's tries, the answers requests.request gave so far, and the sleeps. *)

\* The requests the program makes: get_clock, get_account, list_positions,
\* get_bars, get_snapshot and the order post.
ReqTargets ==
    {[method |-> "GET", url |-> "/v2/clock"], [method |-> "GET", url |-> "/v2/account"],
     [method |-> "GET", url |-> "/v2/positions"], [method |-> "GET", url |-> "/v2/stocks/bars"],
     [method |-> "GET", url |-> "/v2/stocks/snapshot"],
     [method |-> "POST", url |-> "/v2/orders"]}

\* What requests.request can do: answer with a status code, or raise
\* (a timeout, a refused connection).
ReqAnswers ==
    {[raised |-> FALSE, status_code |-> c] :
        c \in {200, 201, 400, 401, 403, 404, 422, 429, 500, 503}}
    \cup {[raised |-> TRUE, status_code |-> 0]}

\* Seeded fault: a 503 is retried like a 429.
rate_limited_or_unavailable(r) == ~r.raised /\ r.status_code \in {429, 503}

\* Line 55.
rate_limited(r) == ~r.raised /\ r.status_code = 429

\* r.raise_for_status() raises: a 4xx or 5xx status.
raise_for_status(r) == 400 <= r.status_code /\ r.status_code < 600

\* Line 51: _req is entered.
ReqCall ==
    /\ call = NoCall
    /\ \E t \in ReqTargets :
        call' = [fn |-> "_req", method |-> t.method, url |-> t.url, tries |-> 0,
                 answers |-> <<>>, slept |-> <<>>, returned |-> FALSE]
    /\ UNCHANGED <<ret, cycleVars>>

\* Lines 52-64: one turn of the loop.
ReqAttempt ==
    /\ call.fn = "_req"
    /\ ~call.returned
    /\ call.tries < 3
    /\ \E r \in ReqAnswers :
        IF rate_limited(r)
        THEN /\ call' = [call EXCEPT !.answers = Append(@, r),
                                     !.slept = Append(@, 2 ^ call.tries),
                                     !.tries = @ + 1]
             /\ ret' = ret
        ELSE /\ call' = [call EXCEPT !.answers = Append(@, r), !.returned = TRUE]
             /\ ret' = IF r.raised \/ raise_for_status(r) THEN None ELSE r
    /\ UNCHANGED cycleVars

\* Line 65: the loop ran out of tries.
ReqExhausted ==
    /\ call.fn = "_req"
    /\ ~call.returned
    /\ call.tries >= 3
    /\ call' = [call EXCEPT !.returned = TRUE]
    /\ ret' = None
    /\ UNCHANGED cycleVars

NextReq == ReqCall \/ ReqAttempt \/ ReqExhausted

\* Every request ends within its timeout of 20 s and every sleep ends, so
\* the loop keeps taking its steps.
SpecReq == Init /\ [][NextReq]_vars /\ WF_vars(NextReq)

-----------------------------------------------------------------------------
(* What the Alpaca API can answer within a scan cycle.                     *)

UniverseLen == 2

\* The head of the UNIVERSE list.
UNIVERSE == SubSeq(<<"AAPL", "MSFT", "NVDA", "TSLA", "AMD", "META">>, 1, UniverseLen)

\* UNIVERSE[:MAX_SYMBOLS_PER_SCAN]
symbols ==
    SubSeq(UNIVERSE, 1, IF Len(UNIVERSE) < MAX_SYMBOLS_PER_SCAN THEN Len(UNIVERSE)
                        ELSE MAX_SYMBOLS_PER_SCAN)

\* get_bars answers: "none" is None (the request failed or held no bars);
\* "A" breaks out from 7 to 17 on an ATR of 15/14; "B" from 9 to 13 on an
\* ATR of 1/2 (a lower score, and a cheaper share).
SeriesNames == {"none", "A", "B"}

BarsOf(name) ==
    CASE name = "A" -> Series(57, 300000, 6, 7, 17, 17, 600000)
      [] name = "B" -> Series(57, 300000, 8, 9, 13, 13, 600000)
      [] name = "short" -> Series(56, 300000, 8, 9, 13, 13, 600000)
      [] name = "cheap" -> Series(57, 300000, 8, 9, 4, 4, 600000)
      [] name = "thin" -> Series(57, 290000, 8, 9, 13, 13, 450000)
      [] name = "quiet" -> Series(57, 300000, 8, 9, 10, 10, 600000)
      [] name = "below_vwap" -> Series(57, 300000, 8, 9, 50, 13, 3000000)
      [] name = "overbought" -> Series(57, 300000, 10, 10, 13, 13, 600000)
      [] OTHER -> <<>>

\* "B" and series that fail one check each: "short" has 59 bars, "cheap"
\* closes below MIN_PRICE, "thin" trades too little, "quiet" does not break
\* out, "below_vwap" closes under its VWAP, "overbought" has an RSI of 100.
PipelineSeries ==
    {"none", "short", "cheap", "thin", "quiet", "below_vwap", "overbought", "B"}

\* get_snapshot answers: None is a failed request.
Snapshots == {None, [trading_status |-> "Active"], [trading_status |-> "Halted"]}

\* get_account answers: None is a failed request.
Accounts ==
    {None} \cup
    {[trading_blocked |-> b, equity |-> e[1], last_equity |-> e[2], buying_power |-> bp] :
        b \in BOOLEAN, bp \in {100, 1000},
        e \in {<<96999, 100000>>, <<97000, 100000>>, <<97000, 97000>>}}

\* get_json answers to /v2/positions: a list of that length, or no list.
PositionsAnswers == {[is_list |-> TRUE, len |-> 5], [is_list |-> TRUE, len |-> 6],
                     [is_list |-> FALSE]}

\* len(list_positions()): the answer if it is a list, else [].
list_positions(res) == IF res.is_list THEN res.len ELSE 0

-----------------------------------------------------------------------------
(* Order placement.                                                        *)

\* round(x, 2), halves to even.
Round2(x) ==
    LET scaled == RMul(x, RInt(100))
        low == Floor(scaled)
        twice_rest == RMul(RSub(scaled, RInt(low)), RInt(2))
    IN  IF RLt(twice_rest, RInt(1)) THEN Rat(low, 100)
        ELSE IF RGt(twice_rest, RInt(1)) THEN Rat(low + 1, 100)
        ELSE IF low % 2 = 0 THEN Rat(low, 100) ELSE Rat(low + 1, 100)

\* get_snapshot answers when the order is built: None, or the latest trade
\* price and the minute bar's close (0 for a missing one).
PlaceSnapshots == {None, [latestTrade_p |-> RInt(17), minuteBar_c |-> RInt(16)],
                   [latestTrade_p |-> RInt(0), minuteBar_c |-> RInt(16)]}

\* The payload place_bracket_order posts; extended_now is what
\* is_extended_session_now() answers inside it.
place_bracket_order(symbol, qty, stop_price, take_profit_price, extended_now, snap) ==
    LET extended == EXTENDED_TRADING /\ extended_now
        last == IF snap = None THEN RInt(0)
                ELSE IF snap.latestTrade_p # RInt(0) THEN snap.latestTrade_p
                ELSE snap.minuteBar_c
        order_type == IF extended THEN "limit" ELSE "market"
        payload == [symbol |-> symbol, qty |-> qty, side |-> "buy", type |-> order_type,
                    time_in_force |-> "day", order_class |-> "bracket",
                    take_profit |-> Round2(take_profit_price),
                    stop_loss |-> Round2(stop_price),
                    extended_hours |-> extended]
    IN  IF order_type = "limit"
        THEN [limit_price |->
                 IF last # RInt(0) THEN Round2(RMul(last, Rat(1003, 1000)))
                 ELSE Round2(RDiv(RAdd(stop_price, take_profit_price), RInt(2)))]
             @@ payload
        ELSE payload

\* Seeded fault: the opening minute of the regular session still counts as
\* pre-market (now <= REGULAR_OPEN).
is_extended_session_now_inclusive(now) ==
    \/ (PRE_MARKET_START <= now /\ now <= REGULAR_OPEN)
    \/ (REGULAR_CLOSE <= now /\ now < AFTER_MARKET_END)

\* now is the New York time of day the call reads.
is_extended_session_now(now) ==
    \/ (PRE_MARKET_START <= now /\ now < REGULAR_OPEN)
    \/ (REGULAR_CLOSE <= now /\ now < AFTER_MARKET_END)

-----------------------------------------------------------------------------
(* place_bracket_order on its own, around the session boundaries.          *)

PlaceTimes == {0, 239, 240, 569, 570, 959, 960, 1199, 1200, 1439}
PlaceQtys == {1, 8}
\* <<stop, take>> of the candidates at 17 and at 13 dollars.
PlaceExits == {<<Rat(443, 28), Rat(271, 14)>>, <<Rat(249, 20), Rat(141, 10)>>}

CallPlaceOrder ==
    /\ call = NoCall
    /\ \E now \in PlaceTimes, qty \in PlaceQtys, exits \in PlaceExits,
          snap \in PlaceSnapshots :
            /\ call' = [fn |-> "place_bracket_order", now |-> now, qty |-> qty,
                        stop_price |-> exits[1], take_profit_price |-> exits[2],
                        snap |-> snap]
            /\ ret' = place_bracket_order("AAPL", qty, exits[1], exits[2],
                                          is_extended_session_now(now), snap)
    /\ UNCHANGED cycleVars

SpecPlace == Init /\ [][CallPlaceOrder]_vars

-----------------------------------------------------------------------------
(* scan_and_trade.                                                         *)

\* Lines 219-222: the checks on the account.
account_verdict(a) ==
    IF a = None THEN "no_account"
    ELSE IF a.trading_blocked THEN "blocked"
    ELSE IF daily_loss_exceeded(a) THEN "daily_loss"
    ELSE "ok"

\* Seeded fault: the cap bites only above MAX_CONCURRENT_POS.
position_cap_reached_strict(n) == n > MAX_CONCURRENT_POS

\* Line 228.
position_cap_reached(n) == n >= MAX_CONCURRENT_POS

\* Seeded fault: equal strengths land in reverse scan order.
insert_before_ties(sorted, x) ==
    LET k == Cardinality({i \in 1..Len(sorted) : RGt(sorted[i].strength, x.strength)})
    IN  SubSeq(sorted, 1, k) \o <<x>> \o SubSeq(sorted, k + 1, Len(sorted))

\* Seeded fault: reverse=True forgotten, the weakest candidate comes first.
insert_ascending(sorted, x) ==
    LET k == Cardinality({i \in 1..Len(sorted) : RLe(sorted[i].strength, x.strength)})
    IN  SubSeq(sorted, 1, k) \o <<x>> \o SubSeq(sorted, k + 1, Len(sorted))

\* One step of the stable descending sort: x goes behind every element at
\* least as strong.
insert_sorted(sorted, x) ==
    LET k == Cardinality({i \in 1..Len(sorted) : RGe(sorted[i].strength, x.strength)})
    IN  SubSeq(sorted, 1, k) \o <<x>> \o SubSeq(sorted, k + 1, Len(sorted))

\* candidates.sort(key=lambda d: d["strength"], reverse=True)
RECURSIVE sort_by_strength(_)
sort_by_strength(c) ==
    IF c = <<>> THEN <<>>
    ELSE insert_sorted(sort_by_strength(ButLast(c)), c[Len(c)])

\* The loop of lines 241-249 from candidate i on: the symbols sized and the
\* trade intents handed to place_bracket_order.
RECURSIVE trade_from(_, _, _)
trade_from(cands, buying_power, i) ==
    IF i > Len(cands) THEN [sized |-> <<>>, intents |-> <<>>]
    ELSE LET idea == cands[i]
             qty == position_size(buying_power, idea.entry, idea.stop, RISK_PCT_PER_TRADE)
         IN  IF qty <= 0
             THEN LET rest == trade_from(cands, buying_power, i + 1)
                  IN  [sized |-> <<idea.symbol>> \o rest.sized, intents |-> rest.intents]
             ELSE [sized |-> <<idea.symbol>>,
                   intents |-> <<[idea |-> idea, qty |-> qty]>>]

\* Seeded fault: the loop without its break.
RECURSIVE trade_on_from(_, _, _)
trade_on_from(cands, buying_power, i) ==
    IF i > Len(cands) THEN [sized |-> <<>>, intents |-> <<>>]
    ELSE LET idea == cands[i]
             qty == position_size(buying_power, idea.entry, idea.stop, RISK_PCT_PER_TRADE)
             rest == trade_on_from(cands, buying_power, i + 1)
         IN  [sized |-> <<idea.symbol>> \o rest.sized,
              intents |-> IF qty <= 0 THEN rest.intents
                          ELSE <<[idea |-> idea, qty |-> qty]>> \o rest.intents]

trade_loop_without_break(cands, buying_power) == trade_on_from(cands, buying_power, 1)

\* Seeded fault: only a negative size is skipped (qty < 0), a size of 0 is
\* ordered.
trade_loop_orders_size_zero(cands, buying_power) ==
    LET idea == cands[1]
        qty == position_size(buying_power, idea.entry, idea.stop, RISK_PCT_PER_TRADE)
    IN  [sized |-> <<idea.symbol>>, intents |-> <<[idea |-> idea, qty |-> qty]>>]

trade_loop(cands, buying_power) == trade_from(cands, buying_power, 1)

NotRequested == [requested |-> FALSE]

\* How a turn of main's loop can have ended.
Completed == {"closed", "no_account", "blocked", "daily_loss", "position_cap",
              "no_setups", "all_size_zero", "ordered", "order_error"}

\* How a call of scan_and_trade can have ended.
ScanCompleted == Completed \ {"closed"}

NoCycle ==
    /\ acct' = None
    /\ positions' = 0
    /\ market' = <<>>
    /\ analyzed' = <<>>
    /\ snapshots' = <<>>
    /\ candidates' = <<>>
    /\ sized' = <<>>
    /\ orders' = <<>>

\* main, lines 256-260: neither the regular nor the extended session is on.
Wait ==
    /\ outcome = "idle"
    /\ outcome' = "closed"
    /\ UNCHANGED <<call, ret, acct, positions, market, analyzed, snapshots,
                   candidates, sized, orders, pausedAt, remembered>>

\* The baseline of a breach seen, until a cycle reads another baseline.
Paused(a) ==
    IF a = None THEN pausedAt
    ELSE IF ~a.trading_blocked /\ daily_loss_exceeded(a) THEN {a.last_equity}
    ELSE pausedAt \cap {a.last_equity}

\* scan_and_trade, lines 219-229: the account, its checks, the positions.
Guardrails(accounts, answers) ==
    /\ outcome = "idle"
    /\ \E a \in accounts :
        /\ acct' = a
        /\ pausedAt' = Paused(a)
        /\ IF account_verdict(a) # "ok"
           THEN /\ outcome' = account_verdict(a)
                /\ positions' = 0
           ELSE \E res \in answers :
                /\ positions' = list_positions(res)
                /\ outcome' = IF position_cap_reached(list_positions(res))
                              THEN "position_cap" ELSE "scanning"
    /\ UNCHANGED <<call, ret, market, analyzed, snapshots, candidates, sized,
                   orders, remembered>>

\* Lines 233-235: one turn of the loop over the symbols.
Analyze(series, snaps) ==
    /\ outcome = "scanning"
    /\ Len(analyzed) < Len(symbols)
    /\ LET s == symbols[Len(analyzed) + 1] IN
       \E name \in series :
        /\ analyzed' = Append(analyzed, s)
        /\ IF snapshot_requested(BarsOf(name))
           THEN \E snap \in snaps :
                LET idea == analyze_symbol(s, BarsOf(name), snap) IN
                /\ snapshots' = Append(snapshots, s)
                /\ market' = Append(market, [bars |-> name, snap |-> snap])
                /\ candidates' = IF idea # None THEN Append(candidates, idea)
                                 ELSE candidates
           ELSE /\ snapshots' = snapshots
                /\ market' = Append(market, [bars |-> name, snap |-> NotRequested])
                /\ candidates' = candidates
    /\ UNCHANGED <<call, ret, outcome, acct, positions, sized, orders, pausedAt, remembered>>

\* Lines 237-249: rank the candidates, size them in turn, place one order.
Trade(place_snaps) ==
    /\ outcome = "scanning"
    /\ Len(analyzed) = Len(symbols)
    /\ IF candidates = <<>>
       THEN /\ outcome' = "no_setups"
            /\ UNCHANGED <<candidates, sized, orders>>
       ELSE LET ranked == sort_by_strength(candidates)
                done == trade_loop(ranked, RInt(acct.buying_power))
            IN  /\ candidates' = ranked
                /\ sized' = done.sized
                /\ IF done.intents = <<>>
                   THEN /\ orders' = <<>>
                        /\ outcome' = "all_size_zero"
                   ELSE \E extended_now \in BOOLEAN, snap \in place_snaps,
                          accepted \in BOOLEAN :
                        /\ orders' =
                             [k \in 1..Len(done.intents) |->
                                 place_bracket_order(done.intents[k].idea.symbol,
                                     done.intents[k].qty, done.intents[k].idea.stop,
                                     done.intents[k].idea.take, extended_now, snap)]
                        /\ outcome' = IF accepted THEN "ordered" ELSE "order_error"
    /\ UNCHANGED <<call, ret, acct, positions, market, analyzed, snapshots,
                   pausedAt, remembered>>

\* main, line 261: scan_and_trade has returned, its locals are gone, the
\* loop sleeps until the next turn.
Sleep ==
    /\ outcome \in Completed
    /\ outcome' = "idle"
    /\ NoCycle
    /\ UNCHANGED <<call, ret, pausedAt, remembered>>

\* An exception leaves scan_and_trade while a symbol is analyzed: the body
\* of the bars answer is not JSON (r.json() raises), or a bar lacks a key
\* (line 134 raises KeyError).  main catches it at line 264.
AnalyzeRaises ==
    /\ outcome = "scanning"
    /\ Len(analyzed) < Len(symbols)
    /\ analyzed' = Append(analyzed, symbols[Len(analyzed) + 1])
    /\ market' = Append(market, [bars |-> "malformed", snap |-> NotRequested])
    /\ outcome' = "loop_error"
    /\ UNCHANGED <<call, ret, acct, positions, snapshots, candidates, sized, orders,
                   pausedAt, remembered>>

\* Seeded fault: the handler lets the error end the loop.
Recover_breaks ==
    /\ outcome = "loop_error"
    /\ outcome' = "stopped"
    /\ NoCycle
    /\ UNCHANGED <<call, ret, pausedAt, remembered>>

\* main, lines 264-265: the error is printed, the loop sleeps 5 s and goes
\* on to its next turn.
Recover ==
    /\ outcome = "loop_error"
    /\ outcome' = "idle"
    /\ NoCycle
    /\ UNCHANGED <<call, ret, pausedAt, remembered>>

Next ==
    \/ Wait
    \/ Guardrails(Accounts, PositionsAnswers)
    \/ Analyze(SeriesNames, Snapshots)
    \/ AnalyzeRaises
    \/ Trade(PlaceSnapshots)
    \/ Sleep
    \/ Recover

Spec == Init /\ [][Next]_vars

-----------------------------------------------------------------------------
(* The evaluator pipeline within the cycle: one account in order, and bar  *)
(* series that fail each check in turn.                                    *)

PipelineAccounts ==
    {[trading_blocked |-> FALSE, equity |-> 100000, last_equity |-> 100000,
      buying_power |-> 1000]}

NextPipeline ==
    \/ Wait
    \/ Guardrails(PipelineAccounts, {[is_list |-> TRUE, len |-> 5]})
    \/ Analyze(PipelineSeries, AnalyzeSnapshots)
    \/ Trade({None})
    \/ Sleep

SpecPipeline == Init /\ [][NextPipeline]_vars

-----------------------------------------------------------------------------
(* Two cycles side by side: an observer keeps the inputs and the decision  *)
(* of one earlier cycle, over a narrower set of API answers.               *)

\* What the cycle read: the account, the positions, the bars and snapshots.
CycleInputs ==
    [acct |-> acct, positions |-> positions, market |-> market,
     snapshots |-> snapshots]

\* What the cycle decided: the guardrail verdict and the trade intents.
CycleDecision ==
    [verdict |-> IF outcome \in {"ordered", "order_error"} THEN "intent" ELSE outcome,
     intents |-> [k \in 1..Len(orders) |->
                    [symbol |-> orders[k].symbol, qty |-> orders[k].qty,
                     stop_loss |-> orders[k].stop_loss,
                     take_profit |-> orders[k].take_profit]]]

RememberAndSleep ==
    /\ outcome \in ScanCompleted
    /\ remembered = None
    /\ remembered' = [inputs |-> CycleInputs, decision |-> CycleDecision]
    /\ outcome' = "idle"
    /\ NoCycle
    /\ UNCHANGED <<call, ret, pausedAt>>

TwoCycleAccounts ==
    {None,
     [trading_blocked |-> FALSE, equity |-> 96999, last_equity |-> 100000,
      buying_power |-> 1000],
     [trading_blocked |-> FALSE, equity |-> 97000, last_equity |-> 100000,
      buying_power |-> 1000]}

NextTwoCycles ==
    \/ Wait
    \/ Guardrails(TwoCycleAccounts, PositionsAnswers)
    \/ Analyze({"none", "B"}, {[trading_status |-> "Active"]})
    \/ Trade({None})
    \/ Sleep
    \/ RememberAndSleep

SpecTwoCycles == Init /\ [][NextTwoCycles]_vars

-----------------------------------------------------------------------------
(* Properties of position_size (SpecSize).                                 *)

SizeCalled == call.fn = "position_size"

\* C1: for every buying power >= 0, entry > 0, stop >= 0 and risk fraction
\* >= 0, position_size returns a non-negative integer qty with
\* qty * entry <= buying power.
C1_SizeWithinBuyingPower ==
    (/\ SizeCalled
     /\ call.buying_power.n >= 0
     /\ call.entry.n > 0
     /\ call.stop.n >= 0
     /\ call.risk_pct.n >= 0)
    => /\ ret \in Nat
       /\ ret * call.entry.n * call.buying_power.d
            <= call.buying_power.n * call.entry.d

\* The cap is what decides: twice the buying power is risked, the raw share
\* count costs more than the buying power, and shares are still bought.
C1_Witness ==
    /\ SizeCalled
    /\ call.buying_power.n > 0
    /\ call.stop.n >= 0
    /\ call.risk_pct = RInt(2)
    /\ ret > 0

C10_Reference(bp, entry, stop, risk) ==
    LET gap == RSub(entry, stop)
        per_share == IF RLe(gap, Rat(1, 100)) THEN Rat(1, 100) ELSE gap
        raw == Floor(RDiv(RMul(bp, risk), per_share))
    IN  IF RGt(RMul(RInt(raw), entry), bp) THEN Floor(RDiv(bp, entry)) ELSE raw

\* C10: for buying power >= 0, position_size equals the reference formula
\* (per-share risk = max(0.01, entry - stop); raw = floor(buying power x risk
\* fraction / per-share risk); floor(buying power / entry) if raw x entry >
\* buying power, else raw); it returns 0 when buying power is 0, and the 0.01
\* floor is the divisor whenever entry - stop <= 0.01.
C10_SizeMatchesReference ==
    (SizeCalled /\ call.buying_power.n >= 0)
    => /\ ret = C10_Reference(call.buying_power, call.entry, call.stop, call.risk_pct)
       /\ (call.buying_power.n = 0 => ret = 0)

\* entry <= stop, so the divisor is the 0.01 floor, and shares are bought.
C10_Witness ==
    /\ SizeCalled
    /\ call.buying_power.n > 0
    /\ RLe(call.entry, call.stop)
    /\ ret > 0

-----------------------------------------------------------------------------
(* Properties of daily_loss_exceeded (SpecLoss).                           *)

LossCalled == call.fn = "daily_loss_exceeded"

\* C6: daily_loss_exceeded is true whenever (equity - last_equity) /
\* last_equity < -0.03; it is false at exactly -3% (97000 against 100000),
\* for any drawdown above -3%, and whenever last_equity is 0.
C6_DailyLossThreshold ==
    LossCalled =>
        /\ (call.last_equity > 0 =>
                (ret <=> 100 * (call.equity - call.last_equity) < -3 * call.last_equity))
        /\ (call.last_equity = 0 => ret = FALSE)
        /\ (call.equity = 97000 /\ call.last_equity = 100000 => ret = FALSE)

\* The boundary: a drawdown of exactly -3% does not disallow.
C6_Witness ==
    /\ LossCalled
    /\ call.equity = 97000
    /\ call.last_equity = 100000
    /\ ret = FALSE

-----------------------------------------------------------------------------
(* Properties of analyze_symbol (SpecAnalyze).                             *)

AnalyzeCalled == call.fn = "analyze_symbol"

RECURSIVE C7_VolumeSum(_, _, _)
C7_VolumeSum(b, lo, hi) ==
    IF lo > hi THEN 0 ELSE b[hi].v + C7_VolumeSum(b, lo, hi - 1)

\* The sum of 3 x typical price x volume.
RECURSIVE C7_PriceVolumeSum(_, _, _)
C7_PriceVolumeSum(b, lo, hi) ==
    IF lo > hi THEN 0
    ELSE (b[hi].h + b[hi].l + b[hi].c) * b[hi].v + C7_PriceVolumeSum(b, lo, hi - 1)

\* The sum of the rises of the closes lo..hi over their predecessors.
RECURSIVE C7_Rises(_, _, _)
C7_Rises(b, lo, hi) ==
    IF lo > hi THEN 0
    ELSE (IF b[hi].c > b[hi - 1].c THEN b[hi].c - b[hi - 1].c ELSE 0)
         + C7_Rises(b, lo, hi - 1)

RECURSIVE C7_Falls(_, _, _)
C7_Falls(b, lo, hi) ==
    IF lo > hi THEN 0
    ELSE (IF b[hi].c < b[hi - 1].c THEN b[hi - 1].c - b[hi].c ELSE 0)
         + C7_Falls(b, lo, hi - 1)

C7_PriceInBand(b) == 5 <= b[Len(b)].c /\ b[Len(b)].c <= 800

C7_Liquid(b) == C7_VolumeSum(b, Len(b) - 29, Len(b)) >= 30 * 300000

C7_AboveHighs(b) == \A k \in (Len(b) - 20)..(Len(b) - 1) : b[Len(b)].c > b[k].h

\* last volume > 1.5 x (sum of the 20 volumes before it) / 20
C7_VolumeSurge(b) == 40 * b[Len(b)].v > 3 * C7_VolumeSum(b, Len(b) - 20, Len(b) - 1)

\* last close > sum(typical x volume) / sum(volume) over the last 30 bars
C7_AboveVwap(b) ==
    3 * b[Len(b)].c * C7_VolumeSum(b, Len(b) - 29, Len(b))
        > C7_PriceVolumeSum(b, Len(b) - 29, Len(b))

\* RSI(14) = 100 x rises / (rises + falls) < 75, and 100 when nothing fell.
C7_RsiBelow75(b) ==
    /\ C7_Falls(b, Len(b) - 13, Len(b)) > 0
    /\ C7_Rises(b, Len(b) - 13, Len(b)) < 3 * C7_Falls(b, Len(b) - 13, Len(b))

C7_Tradable(snap) == snap = None \/ snap.trading_status \notin {"Halted", "T1"}

\* C7: for a series of at least 60 bars analyze_symbol produces a candidate
\* if and only if the last close is in [5, 800], the mean volume of the last
\* 30 bars is >= 300000, the last close is above the highest high of the 20
\* bars before the current one, the last volume is above 1.5 x the mean of
\* the 20 volumes before it, the last close is above the 30-bar VWAP,
\* RSI(14) < 75 and the status is not Halted/T1; the entry is the last close.
C7_CandidateIffAllFilters ==
    (AnalyzeCalled /\ Len(call.bars) >= 60) =>
        /\ ret # None <=>
              /\ C7_PriceInBand(call.bars)
              /\ C7_Liquid(call.bars)
              /\ C7_AboveHighs(call.bars)
              /\ C7_VolumeSurge(call.bars)
              /\ C7_AboveVwap(call.bars)
              /\ C7_RsiBelow75(call.bars)
              /\ C7_Tradable(call.snap)
        /\ ret # None => ret.entry = RInt(call.bars[Len(call.bars)].c)

\* A breakout above the VWAP on an RSI of exactly 75 is rejected.
C7_Witness ==
    /\ AnalyzeCalled
    /\ Len(call.bars) >= 60
    /\ C7_PriceInBand(call.bars)
    /\ C7_Liquid(call.bars)
    /\ C7_AboveHighs(call.bars)
    /\ C7_VolumeSurge(call.bars)
    /\ C7_AboveVwap(call.bars)
    /\ C7_Tradable(call.snap)
    /\ C7_Rises(call.bars, Len(call.bars) - 13, Len(call.bars))
         = 3 * C7_Falls(call.bars, Len(call.bars) - 13, Len(call.bars))
    /\ C7_Falls(call.bars, Len(call.bars) - 13, Len(call.bars)) > 0
    /\ ret = None

\* The true range of bar k: the widest of high - low, |high - previous
\* close| and |low - previous close|.
C11_TrueRange(b, k) ==
    LET hl == b[k].h - b[k].l
        hc == IF b[k].h >= b[k - 1].c THEN b[k].h - b[k - 1].c ELSE b[k - 1].c - b[k].h
        lc == IF b[k].l >= b[k - 1].c THEN b[k].l - b[k - 1].c ELSE b[k - 1].c - b[k].l
    IN  IF hl >= hc /\ hl >= lc THEN hl ELSE IF hc >= lc THEN hc ELSE lc

RECURSIVE C11_TrueRangeSum(_, _, _)
C11_TrueRangeSum(b, lo, hi) ==
    IF lo > hi THEN 0 ELSE C11_TrueRange(b, hi) + C11_TrueRangeSum(b, lo, hi - 1)

\* 14 x ATR(14): the true ranges of the last 14 bars.
C11_Atr14Times14(b) == C11_TrueRangeSum(b, Len(b) - 13, Len(b))

C18_BarInvariant(b) == \A k \in 1..Len(b) : b[k].h >= b[k].c /\ b[k].c >= b[k].l

\* C18: for bars satisfying the bar invariant, every candidate produced by
\* analyze_symbol has ATR > 0, hence stop < entry < take and a strictly
\* positive score; none is emitted with stop = entry = take.
C18_CandidateHasPositiveAtr ==
    (AnalyzeCalled /\ C18_BarInvariant(call.bars) /\ ret # None) =>
        /\ RGt(ret.atr, RInt(0))
        /\ RLt(ret.stop, ret.entry)
        /\ RLt(ret.entry, ret.take)
        /\ RGt(ret.strength, RInt(0))
        /\ ~(ret.stop = ret.entry /\ ret.entry = ret.take)

\* A candidate on bars with high = low throughout the window: its ATR comes
\* from the gaps to the previous closes alone, and is positive.
C18_Witness ==
    /\ AnalyzeCalled
    /\ C18_BarInvariant(call.bars)
    /\ ret # None
    /\ \A k \in (Len(call.bars) - 13)..Len(call.bars) : call.bars[k].h = call.bars[k].l
    /\ RGt(ret.atr, RInt(0))

-----------------------------------------------------------------------------
(* Properties of the evaluator pipeline (SpecPipeline).                    *)

\* The history, price, liquidity, breakout, VWAP and RSI checks all pass
\* (with 60 bars the ATR is always defined).
C16_PassesEarlierChecks(b) ==
    /\ Len(b) >= 60
    /\ C7_PriceInBand(b)
    /\ C7_Liquid(b)
    /\ C7_AboveHighs(b)
    /\ C7_VolumeSurge(b)
    /\ C7_AboveVwap(b)
    /\ C7_RsiBelow75(b)

\* The symbols among the first k analyzed that passed the earlier checks.
RECURSIVE C16_PassedUpTo(_)
C16_PassedUpTo(k) ==
    IF k = 0 THEN <<>>
    ELSE IF C16_PassesEarlierChecks(BarsOf(market[k].bars))
         THEN Append(C16_PassedUpTo(k - 1), analyzed[k])
         ELSE C16_PassedUpTo(k - 1)

\* C16: analyze_symbol requests the live snapshot only after the history,
\* price, liquidity, breakout, VWAP/RSI and ATR checks have all passed; a
\* symbol rejected by an earlier check causes no snapshot request, and a
\* symbol whose status is Halted or T1 never becomes a candidate.
C16_SnapshotOnlyAfterFilters ==
    /\ Len(market) = Len(analyzed)
    /\ snapshots = C16_PassedUpTo(Len(market))
    /\ \A k \in 1..Len(market) :
          /\ market[k].snap # NotRequested
                <=> C16_PassesEarlierChecks(BarsOf(market[k].bars))
          /\ (/\ market[k].snap # NotRequested
              /\ market[k].snap # None
              /\ market[k].snap.trading_status \in {"Halted", "T1"})
             => \A i \in 1..Len(candidates) : candidates[i].symbol # analyzed[k]

\* The first symbol fails on its RSI and no snapshot is asked for; the
\* second passes every check, is reported T1, and is no candidate.
C16_Witness ==
    /\ Len(market) = 2
    /\ market[1].bars = "overbought"
    /\ market[2].snap = [trading_status |-> "T1"]
    /\ snapshots = <<symbols[2]>>
    /\ candidates = <<>>

-----------------------------------------------------------------------------
(* Properties of the indicators (SpecIndicators).                          *)

\* The sum of the falls of closes lo..hi below their predecessors.
RECURSIVE C12_Falls(_, _, _)
C12_Falls(c, lo, hi) ==
    IF lo > hi THEN 0
    ELSE (IF c[hi] < c[hi - 1] THEN c[hi - 1] - c[hi] ELSE 0) + C12_Falls(c, lo, hi - 1)

\* C12: for every close series with at least n+1 values, rsi(closes, n) lies
\* in [0, 100], and it equals 100 if and only if the average loss over the
\* last n periods is 0 (an entirely flat window included).
C12_RsiRange ==
    (call.fn = "rsi" /\ Len(call.closes) >= call.n + 1) =>
        /\ RLe(RInt(0), ret)
        /\ RLe(ret, RInt(100))
        /\ ret = RInt(100) <=>
              C12_Falls(call.closes, Len(call.closes) - call.n + 1, Len(call.closes)) = 0

\* An entirely flat window after an earlier fall: the RSI is 100.
C12_Witness ==
    /\ call.fn = "rsi"
    /\ Len(call.closes) > call.n + 1
    /\ call.closes[1] > call.closes[2]
    /\ \A k \in 2..Len(call.closes) : call.closes[k] = call.closes[2]
    /\ ret = RInt(100)

\* Some indicator analyze_symbol uses is undefined on these bars.
C13_IndicatorUndefined(b) ==
    \/ IsNaN(highest(ButLast(Column(b, "h")), 20))
    \/ IsNaN(atr(Column(b, "h"), Column(b, "l"), Column(b, "c"), 14))
    \/ IsNaN(rsi(Column(b, "c"), 14))

\* C13: for every input shorter than the required window (highest: fewer
\* than n values; atr and rsi: fewer than n+1 closes) the indicator returns
\* NaN and never a number; and a symbol for which an indicator is undefined,
\* or which has fewer than 60 bars, never yields a candidate.
C13_InsufficientData ==
    /\ (call.fn = "highest" /\ Len(call.values) < call.n) => IsNaN(ret)
    /\ (call.fn = "atr" /\ Len(call.bars) < call.n + 1) => IsNaN(ret)
    /\ (call.fn = "rsi" /\ Len(call.closes) < call.n + 1) => IsNaN(ret)
    /\ (/\ call.fn = "analyze_symbol"
        /\ (Len(call.bars) < 60 \/ C13_IndicatorUndefined(call.bars)))
       => ret = None

\* highest over a list one value short of its window.
C13_Witness ==
    /\ call.fn = "highest"
    /\ Len(call.values) = call.n - 1
    /\ call.values # <<>>
    /\ IsNaN(ret)

\* C15: for every series of at least n+1 bars in which high[i] >= low[i] for
\* all i, atr(highs, lows, closes, n) is >= 0.
C15_AtrNonNegative ==
    (/\ call.fn = "atr"
     /\ Len(call.bars) >= call.n + 1
     /\ \A k \in 1..Len(call.bars) : call.bars[k].h >= call.bars[k].l)
    => RGe(ret, RInt(0))

\* A valid series that gaps down in its window: the high of the last bar is
\* below the close before it, and the ATR is positive.
C15_Witness ==
    /\ call.fn = "atr"
    /\ Len(call.bars) >= call.n + 1
    /\ \A k \in 1..Len(call.bars) : call.bars[k].h >= call.bars[k].l
    /\ call.bars[Len(call.bars)].h < call.bars[Len(call.bars) - 1].c
    /\ RGt(ret, RInt(0))

-----------------------------------------------------------------------------
(* Properties of place_bracket_order (SpecPlace).                          *)

PlaceCalled == call.fn = "place_bracket_order"

\* 04:00-09:30 or 16:00-20:00, New York time.
C17_InExtendedSession(now) == (240 <= now /\ now < 570) \/ (960 <= now /\ now < 1200)

\* C17: every order place_bracket_order submits is a buy bracket order; its
\* type is limit, with extended_hours true and a limit_price, exactly when
\* the call happens in the extended session, and market, with extended_hours
\* false and no limit_price, otherwise.
C17_OrderTypeBySession ==
    PlaceCalled =>
        /\ ret.side = "buy"
        /\ ret.order_class = "bracket"
        /\ IF C17_InExtendedSession(call.now)
           THEN /\ ret.type = "limit"
                /\ ret.extended_hours = TRUE
                /\ "limit_price" \in DOMAIN ret
           ELSE /\ ret.type = "market"
                /\ ret.extended_hours = FALSE
                /\ "limit_price" \notin DOMAIN ret

\* 09:30 sharp is the regular session: a market order.
C17_Witness ==
    /\ PlaceCalled
    /\ call.now = 570
    /\ ret.type = "market"
    /\ "limit_price" \notin DOMAIN ret

-----------------------------------------------------------------------------
(* Properties of _req (SpecReq).                                           *)

ReqCalled == call.fn = "_req"

C20_Is429(r) == ~r.raised /\ r.status_code = 429

C20_IsSuccess(r) == ~r.raised /\ r.status_code < 400

C20_AttemptsBounded ==
    ReqCalled =>
        LET n == Len(call.answers) IN
        /\ n <= 3
        /\ \A k \in 1..(n - 1) : C20_Is429(call.answers[k])
        /\ call.slept = SubSeq(<<1, 2, 4>>, 1, Len(call.slept))
        /\ Len(call.slept) = Cardinality({k \in 1..n : C20_Is429(call.answers[k])})
        /\ (n > 0 /\ ~C20_Is429(call.answers[n])) =>
              /\ call.returned
              /\ ret = IF C20_IsSuccess(call.answers[n]) THEN call.answers[n] ELSE None
        /\ (call.returned /\ C20_Is429(call.answers[n])) => (n = 3 /\ ret = None)
        /\ call.returned => n > 0

\* C20: every call of _req ends after at most 3 HTTP attempts: it retries
\* only on a 429 (backing off 1 s, 2 s, 4 s), returns the response on the
\* first success, returns None at once on any other HTTP error or exception,
\* and returns None after three 429 responses in a row.
C20_ReqTerminates ==
    /\ []C20_AttemptsBounded
    /\ (ReqCalled ~> (ReqCalled /\ call.returned))

\* Two 429 answers, then a success: the third attempt's response is returned.
C20_Witness ==
    /\ ReqCalled
    /\ call.returned
    /\ Len(call.answers) = 3
    /\ call.slept = <<1, 2>>
    /\ ret = [raised |-> FALSE, status_code |-> 200]

-----------------------------------------------------------------------------
(* Properties of the scan cycle (Spec).                                    *)

\* (equity - last_equity) / last_equity < -3%, for a positive baseline.
DrawdownBelowLimit(a) ==
    a.last_equity > 0 /\ 100 * (a.equity - a.last_equity) < -3 * a.last_equity

\* C2: in a cycle whose account is trading-blocked, or whose daily drawdown
\* is below -3%, or that reads 6 or more open positions, analyze_symbol is
\* never invoked and no order is placed.
C2_GuardrailsGateTheCycle ==
    (/\ acct # None
     /\ \/ acct.trading_blocked
        \/ DrawdownBelowLimit(acct)
        \/ positions >= 6)
    => analyzed = <<>> /\ orders = <<>>

\* The cap at its boundary: exactly 6 positions end the cycle.
C2_Witness ==
    /\ outcome = "position_cap"
    /\ positions = 6
    /\ ~acct.trading_blocked
    /\ ~DrawdownBelowLimit(acct)

\* C3: at most one order is submitted per scan cycle, however many
\* candidates pass and whether or not the submission succeeds.
C3_AtMostOneOrderPerCycle == Len(orders) <= 1

CandidateOf(sym) == candidates[CHOOSE k \in 1..Len(candidates) : candidates[k].symbol = sym]

QtyOf(c) == position_size(RInt(acct.buying_power), c.entry, c.stop, RISK_PCT_PER_TRADE)

\* Two candidates that could both be bought, one order, and it was refused.
C3_Witness ==
    /\ outcome = "order_error"
    /\ Len(candidates) = 2
    /\ \A k \in 1..2 : QtyOf(candidates[k]) >= 1
    /\ Len(orders) = 1

Strongest ==
    {c.symbol : c \in {candidates[k] : k \in 1..Len(candidates)} \ 
                      {candidates[k] : k \in {j \in 1..Len(candidates) :
                          \E i \in 1..Len(candidates) :
                              RGt(candidates[i].strength, candidates[j].strength)}}}

\* C4 as stated: position_size is invoked only for the top-ranked candidate,
\* and an order placed in a cycle is for the highest-scored candidate.
C4_OnlyTopCandidateSized ==
    outcome \in Completed =>
        /\ \A k \in 1..Len(sized) : sized[k] \in Strongest
        /\ \A k \in 1..Len(orders) : orders[k].symbol \in Strongest

\* C4, amended: position_size is invoked for the candidates in descending
\* score order up to the first whose size is at least 1; every candidate
\* sized before it has size 0, and the order placed in a cycle is for the
\* highest-scored candidate whose size is at least 1.
C4_OrderGoesToStrongestSizable ==
    outcome \in Completed =>
        /\ \A k \in 1..Len(sized) :
              k < Len(sized) => QtyOf(CandidateOf(sized[k])) = 0
        /\ orders # <<>> =>
              /\ orders[1].symbol = sized[Len(sized)]
              /\ orders[1].qty = QtyOf(CandidateOf(orders[1].symbol))
              /\ orders[1].qty >= 1
              /\ \A i \in 1..Len(candidates) :
                    RGt(candidates[i].strength, CandidateOf(orders[1].symbol).strength)
                        => QtyOf(candidates[i]) = 0
        /\ orders = <<>> =>
              \A i \in 1..Len(candidates) : QtyOf(candidates[i]) = 0

\* The top candidate sizes to 0 and the order goes to the second one.
C4_Witness ==
    /\ outcome = "ordered"
    /\ Len(sized) = 2
    /\ orders[1].symbol = candidates[2].symbol
    /\ RGt(candidates[1].strength, candidates[2].strength)

\* C5 as stated: once a cycle has seen a drawdown below -3%, no order is
\* placed in a later cycle that reads the same last_equity baseline.
C5_NoEntryWhilePaused ==
    orders # <<>> => acct.last_equity \notin pausedAt

ScanPos(sym) == CHOOSE k \in 1..Len(symbols) : symbols[k] = sym

\* C8: symbols are evaluated in universe order; the candidates are processed
\* in descending score order, equal scores in their scan order.
C8_ScanAndRankOrder ==
    /\ Len(analyzed) <= Len(symbols)
    /\ \A k \in 1..Len(analyzed) : analyzed[k] = symbols[k]
    /\ outcome \in {"all_size_zero", "ordered", "order_error"} =>
        /\ \A i, j \in 1..Len(candidates) :
              i < j =>
                /\ RGe(candidates[i].strength, candidates[j].strength)
                /\ candidates[i].strength = candidates[j].strength
                      => ScanPos(candidates[i].symbol) < ScanPos(candidates[j].symbol)
        /\ Len(sized) <= Len(candidates)
        /\ \A k \in 1..Len(sized) : sized[k] = candidates[k].symbol

\* Two candidates of equal score, both sized, the earlier-scanned first.
C8_Witness ==
    /\ outcome = "all_size_zero"
    /\ Len(candidates) = 2
    /\ candidates[1].strength = candidates[2].strength
    /\ sized = <<symbols[1], symbols[2]>>

\* C19: every order submitted in a cycle carries qty >= 1 and qty x entry <=
\* the buying power read at the start of that cycle; a candidate whose
\* computed size is 0 is skipped, no order is submitted for it.
C19_OrdersAreSizedAndAffordable ==
    /\ \A k \in 1..Len(orders) :
          LET c == CandidateOf(orders[k].symbol) IN
          /\ orders[k].qty >= 1
          /\ RLe(RMul(RInt(orders[k].qty), c.entry), RInt(acct.buying_power))
    /\ \A i \in 1..Len(candidates) :
          QtyOf(candidates[i]) = 0 =>
              \A k \in 1..Len(orders) : orders[k].symbol # candidates[i].symbol

\* One share is all the risk budget buys; the candidate ranked above it was
\* sized to 0 and skipped; the order was refused.
C19_Witness ==
    /\ outcome = "order_error"
    /\ Len(sized) = 2
    /\ QtyOf(candidates[1]) = 0
    /\ orders[1].symbol = candidates[2].symbol
    /\ orders[1].qty = 1

\* The symbols of the candidates list.
CandidateSymbols == {candidates[i].symbol : i \in 1..Len(candidates)}

-----------------------------------------------------------------------------
(* Properties of two cycles (SpecTwoCycles).                               *)

\* What a cycle that ended with the given verdict had asked the API for: the
\* positions only after the account checks, the market only after the cap.
ReadPositions(verdict) == verdict \notin {"no_account", "blocked", "daily_loss"}

ReadMarket(verdict) == ReadPositions(verdict) /\ verdict # "position_cap"

\* The cycle in progress and the remembered one were given the same inputs:
\* they agree on every answer that both of them read.
SameInputsAsRemembered ==
    LET now == CycleInputs
        then == remembered.inputs
        v_now == CycleDecision.verdict
        v_then == remembered.decision.verdict
    IN  /\ now.acct = then.acct
        /\ (ReadPositions(v_now) /\ ReadPositions(v_then))
              => now.positions = then.positions
        /\ (ReadMarket(v_now) /\ ReadMarket(v_then))
              => (now.market = then.market /\ now.snapshots = then.snapshots)

\* C9: the guardrail verdict and the trade intent of a cycle depend only on
\* what that cycle was given: a cycle given what an earlier cycle was given
\* decides what the earlier one decided, whatever happened in between.
C9_SameInputsSameDecision ==
    (/\ outcome \in ScanCompleted
     /\ remembered # None
     /\ SameInputsAsRemembered)
    => CycleDecision = remembered.decision

\* A cycle that read what a remembered cycle read and placed an order,
\* although a drawdown breach at this baseline was seen before it.
C9_Witness ==
    /\ outcome \in ScanCompleted
    /\ remembered # None
    /\ CycleInputs = remembered.inputs
    /\ pausedAt # {}
    /\ orders # <<>>

====
